---------------------------- MODULE Spec2Model ----------------------------
(***************************************************************************)
(* Verification model of the elimination core of gtsam:                    *)
(*   - EliminationTreeUnordered (construction, eliminate, equals)          *)
(*   - VerticalBlockMatrix::LikeActiveViewOf                                *)
(*   - VectorValuesUnordered (insert, resize, +, -, +=, dot)                *)
(*                                                                         *)
(* std::vector objects are modelled as sequences; the code's 0-based       *)
(* index k of a vector v is At(v, k).                                      *)
(***************************************************************************)
EXTENDS Integers, Sequences, FiniteSets, TLC

VARIABLES
  \* ---- EliminationTreeUnordered constructor (graph, structure, order)
  graph,              \* the factor graph: graph[i] is the i-th factor reference
  structure,          \* the VariableIndex: key -> factors involving it
  order,              \* the ordering
  pc,                 \* position of the constructor / of eliminate()
  j,                  \* column counter of the sweep
  pending,            \* rest of the BOOST_FOREACH over structure[order[j]]
  nodes,              \* std::vector<sharedNode> nodes(n)
  parents,            \* std::vector<size_t> parents(n, none)
  prevCol,            \* std::vector<size_t> prevCol(m, none)
  factorUsed,         \* std::vector<bool> factorUsed(m, false)
  roots_,             \* member: the roots of the forest (node positions)
  remainingFactors_,  \* member: factors attached to no node
  error,              \* exception leaving the constructor ("" = none)
  \* ---- EliminationTreeUnordered::eliminate
  stack,              \* depth-first traversal stack
  result,             \* the Bayes net under construction
  childFactors,       \* node position -> separator factor it returned
  allRemainingFactors,\* second value returned by eliminate()
  \* ---- EliminationTreeUnordered::equals
  this_, expected, tol, stack1, stack2, eqpc, eqret, edit,
  \* ---- VerticalBlockMatrix::LikeActiveViewOf
  rhs, vbm, vbmpc,
  \* ---- VectorValuesUnordered
  values_, c, vvret, vverr, vvop, vvold

etVars   == <<graph, structure, order, pc, j, pending, nodes, parents, prevCol,
              factorUsed, roots_, remainingFactors_, error>>
elimVars == <<stack, result, childFactors, allRemainingFactors>>
eqVars   == <<this_, expected, tol, stack1, stack2, eqpc, eqret, edit>>
vbmVars  == <<rhs, vbm, vbmpc>>
vvVars   == <<values_, c, vvret, vverr, vvop, vvold>>
vars     == <<etVars, elimVars, eqVars, vbmVars, vvVars>>

-----------------------------------------------------------------------------
(* Bounds *)
NumKeys    == 3    \* variables that occur in the variable index: 1..NumKeys

-----------------------------------------------------------------------------
(* Generic helpers for 0-based vectors *)
At(v, k)       == v[k + 1]
SetAt(v, k, x) == [v EXCEPT ![k + 1] = x]
Size(v)        == Len(v)
Range(v)       == {v[k] : k \in 1..Len(v)}
Fill(n, x)     == [k \in 1..n |-> x]

RECURSIVE SortedSeq(_)
\* iteration order of an index-ordered container of integers
SortedSeq(S) ==
  IF S = {} THEN <<>>
  ELSE LET lo == CHOOSE x \in S : \A y \in S : x <= y
       IN  <<lo>> \o SortedSeq(S \ {lo})

-----------------------------------------------------------------------------
(* EliminationTreeUnordered: data *)

none == -1                       \* std::numeric_limits<size_t>::max()

NullNode == [key |-> none, factors |-> <<>>, children |-> <<>>]
NewNode(k) == [key |-> k, factors |-> <<>>, children |-> <<>>]

Factor(i) == [kind |-> "factor", id |-> i]

Keys      == 1..NumKeys          \* keys the variable index knows
AllKeys   == 0..NumKeys          \* keys an ordering may hold
AbsentKey == CHOOSE k \in AllKeys : k \notin Keys  \* a key no factor involves

\* VariableIndexUnordered::operator[]: throws std::invalid_argument for a key
\* it does not hold, otherwise returns the factor indices in index order
LookupThrows(k) == ~structure[k].present
Lookup(k)       == SortedSeq(structure[k].factors)

Orderings ==
  {o \in UNION {[1..len -> AllKeys] : len \in 0..(NumKeys + 1)} :
     \A a, b \in DOMAIN o : a # b => o[a] # o[b]}

GraphSizes == {0, 1, 2}          \* graph.size() of the graphs explored

\* the variable indices over a graph of m factors: every key of Keys has an
\* entry (possibly without factors), AbsentKey has none
Structures(m) ==
  {s \in [AllKeys -> [present : BOOLEAN, factors : SUBSET (0..(m - 1))]] :
     /\ \A k \in Keys : s[k].present
     /\ s[AbsentKey] = [present |-> FALSE, factors |-> {}]}

ElimIdle ==
  /\ stack = <<>>
  /\ result = <<>>
  /\ childFactors = <<>>
  /\ allRemainingFactors = <<>>

InitET ==
  /\ \E m \in GraphSizes :
       /\ graph = [i \in 1..m |-> Factor(i - 1)]
       /\ structure \in Structures(m)
       /\ prevCol = Fill(m, none)
       /\ factorUsed = Fill(m, FALSE)
  /\ order \in Orderings
  /\ nodes = Fill(Len(order), NullNode)
  /\ parents = Fill(Len(order), none)
  /\ pc = "sweep"
  /\ j = 0
  /\ pending = <<>>
  /\ roots_ = <<>>
  /\ remainingFactors_ = <<>>
  /\ error = ""
  /\ ElimIdle

-----------------------------------------------------------------------------
(* EliminationTreeUnordered constructor, lines 80-156 *)

\* FindRoot without the walk up the parent links
FindRootNoWalk(par, k) == k

RECURSIVE FindRoot(_, _)
\* lines 118-120: r = k; while (parents[r] != none) r = parents[r];
FindRoot(par, k) == IF At(par, k) = none THEN k ELSE FindRoot(par, At(par, k))

\* the sweep position after the BOOST_FOREACH body ran with `rest` left
AfterRow(rest) ==
  IF rest = <<>> THEN /\ pc' = "sweep" /\ j' = j + 1 /\ pending' = <<>>
  ELSE /\ pc' = "row" /\ j' = j /\ pending' = rest

\* lines 100-105: loop head; the lookup structure[order[j]] succeeds
SweepColumn ==
  /\ pc = "sweep"
  /\ j < Size(order)
  /\ ~LookupThrows(At(order, j))
  /\ nodes' = SetAt(nodes, j, NewNode(At(order, j)))
  /\ AfterRow(Lookup(At(order, j)))
  /\ UNCHANGED <<graph, structure, order, parents, prevCol, factorUsed,
                 roots_, remainingFactors_, error>>
  /\ UNCHANGED <<elimVars, eqVars, vbmVars, vvVars>>

\* SweepThrow with the exception swallowed: the entry is skipped
SweepThrowSwallow ==
  /\ pc = "sweep"
  /\ j < Size(order)
  /\ LookupThrows(At(order, j))
  /\ j' = j + 1
  /\ UNCHANGED <<graph, structure, order, pc, pending, nodes, parents, prevCol,
                 factorUsed, roots_, remainingFactors_, error>>
  /\ UNCHANGED <<elimVars, eqVars, vbmVars, vvVars>>

\* lines 103, 137-141: the lookup throws; the constructor rethrows the
\* InvalidOrdering message and no object is constructed
SweepThrow ==
  /\ pc = "sweep"
  /\ j < Size(order)
  /\ LookupThrows(At(order, j))
  /\ pc' = "failed"
  /\ error' = "EliminationTree: given ordering contains variables that are not involved in the factor graph"
  /\ UNCHANGED <<graph, structure, order, j, pending, nodes, parents, prevCol,
                 factorUsed, roots_, remainingFactors_>>
  /\ UNCHANGED <<elimVars, eqVars, vbmVars, vvVars>>

\* lines 114-127: factor i was hit before: adopt the root of its subtree
AdoptSubtree(i) ==
  LET k == At(prevCol, i)
      r == FindRoot(parents, k)
  IN  IF r # j
      THEN /\ parents' = SetAt(parents, r, j)
           /\ nodes' = SetAt(nodes, j,
                [At(nodes, j) EXCEPT !.children = Append(@, r)])
      ELSE UNCHANGED <<parents, nodes>>

\* TakeFactor without marking the factor used
TakeFactorNoMark(i) ==
  /\ nodes' = SetAt(nodes, j,
       [At(nodes, j) EXCEPT !.factors = Append(@, At(graph, i))])
  /\ UNCHANGED factorUsed

\* lines 128-133: first variable of factor i: the node takes the factor
TakeFactor(i) ==
  /\ nodes' = SetAt(nodes, j,
       [At(nodes, j) EXCEPT !.factors = Append(@, At(graph, i))])
  /\ factorUsed' = SetAt(factorUsed, i, TRUE)

\* lines 108-135: one iteration of the BOOST_FOREACH over the factors
VisitFactor ==
  /\ pc = "row"
  /\ pending # <<>>
  /\ LET i == Head(pending)
     IN  /\ IF At(prevCol, i) # none
            THEN AdoptSubtree(i) /\ UNCHANGED factorUsed
            ELSE TakeFactor(i) /\ UNCHANGED parents
         /\ prevCol' = SetAt(prevCol, i, j)
  /\ AfterRow(Tail(pending))
  /\ UNCHANGED <<graph, structure, order, roots_, remainingFactors_, error>>
  /\ UNCHANGED <<elimVars, eqVars, vbmVars, vvVars>>

\* lines 148-150
FindRoots(par) ==
  SortedSeq({r \in 0..(Size(par) - 1) : At(par, r) = none})

\* GatherRemaining without the test of factorUsed
GatherRemainingAll(used) == graph

\* lines 153-155
GatherRemaining(used) ==
  LET idx == SortedSeq({i \in 0..(Size(used) - 1) : ~At(used, i)})
  IN  [k \in 1..Len(idx) |-> At(graph, idx[k])]

\* lines 146-156: the sweep is over: roots and remaining factors
Finish ==
  /\ pc = "sweep"
  /\ j = Size(order)
  /\ roots_' = FindRoots(parents)
  /\ remainingFactors_' = GatherRemaining(factorUsed)
  /\ pc' = "done"
  /\ UNCHANGED <<graph, structure, order, j, pending, nodes, parents, prevCol,
                 factorUsed, error>>
  /\ UNCHANGED <<elimVars, eqVars, vbmVars, vvVars>>

\* line 147: with an empty ordering parents.back() reads an empty vector; a
\* build with assertions enabled may abort there
AssertAbort ==
  /\ pc = "sweep"
  /\ j = Size(order)
  /\ Size(order) = 0
  /\ pc' = "aborted"
  /\ UNCHANGED <<graph, structure, order, j, pending, nodes, parents, prevCol,
                 factorUsed, roots_, remainingFactors_, error>>
  /\ UNCHANGED <<elimVars, eqVars, vbmVars, vvVars>>

-----------------------------------------------------------------------------
(* EliminationTreeUnordered::eliminate, lines 37-61 and 187-203 *)

\* the injected dense elimination step: a conditional on the eliminated key
\* and a separator factor for the parent
EliminateFn(gatheredFactors, keyAsVector) ==
  [first  |-> [keys |-> keyAsVector, from |-> gatheredFactors],
   second |-> [kind |-> "separator", id |-> keyAsVector[1]]]

\* Node::eliminate pushing the conditional twice
NodeEliminateTwice(node, output, childrenResults) ==
  LET gatheredFactors   == node.factors \o childrenResults
      eliminationResult == EliminateFn(gatheredFactors, <<node.key>>)
  IN  [output |-> Append(Append(output, eliminationResult.first),
                         eliminationResult.first),
       return |-> eliminationResult.second]

\* lines 37-61, Node::eliminate: gather own factors then the children's
\* results, eliminate the node's key, push the conditional, return the factor
NodeEliminate(node, output, childrenResults) ==
  LET gatheredFactors   == node.factors \o childrenResults
      eliminationResult == EliminateFn(gatheredFactors, <<node.key>>)
  IN  [output |-> Append(output, eliminationResult.first),
       return |-> eliminationResult.second]

Frame(p, e) == [node |-> p, expanded |-> e]

\* treeTraversal::DepthFirstForest as used by inference::EliminateTree:
\* the roots are stacked so that they are visited in root-list order
TraversalStart(roots) == [k \in 1..Len(roots) |-> Frame(roots[k], FALSE)]

\* the children of a node are stacked above it, first child on top
TraversalExpand(stk) ==
  LET p    == Head(stk).node
      kids == At(nodes, p).children
  IN  [k \in 1..Len(kids) |-> Frame(kids[k], FALSE)]
        \o <<Frame(p, TRUE)>> \o Tail(stk)

\* inference::EliminateTree returns what the traversal is left with: the
\* factors returned by the roots, which have no parent to gather them
TraversalRemaining(roots, cf) == [k \in 1..Len(roots) |-> cf[roots[k]]]

\* eliminate() without line 199
AllRemainingOwnOnly(own, fromTraversal) == own

\* lines 196-199: remainingFactors_ first, then the traversal's factors
AllRemaining(own, fromTraversal) == own \o fromTraversal

\* lines 190-194: allocate the result and enter the traversal
ElimStart ==
  /\ pc = "done"
  /\ result' = <<>>
  /\ stack' = TraversalStart(roots_)
  /\ pc' = "elim"
  /\ UNCHANGED <<childFactors, allRemainingFactors>>
  /\ UNCHANGED <<graph, structure, order, j, pending, nodes, parents, prevCol,
                 factorUsed, roots_, remainingFactors_, error>>
  /\ UNCHANGED <<eqVars, vbmVars, vvVars>>

\* pre-order visit: descend into the children first
ElimExpand ==
  /\ pc = "elim"
  /\ stack # <<>>
  /\ ~Head(stack).expanded
  /\ stack' = TraversalExpand(stack)
  /\ UNCHANGED <<result, childFactors, allRemainingFactors>>
  /\ UNCHANGED <<etVars, eqVars, vbmVars, vvVars>>

\* post-order visit: all children returned, call Node::eliminate
ElimVisit ==
  /\ pc = "elim"
  /\ stack # <<>>
  /\ Head(stack).expanded
  /\ LET p    == Head(stack).node
         node == At(nodes, p)
         childrenResults ==
           [k \in 1..Len(node.children) |-> childFactors[node.children[k]]]
         r    == NodeEliminate(node, result, childrenResults)
     IN  /\ result' = r.output
         /\ childFactors' = (p :> r.return) @@ childFactors
  /\ stack' = Tail(stack)
  /\ UNCHANGED allRemainingFactors
  /\ UNCHANGED <<etVars, eqVars, vbmVars, vvVars>>

\* lines 194-202: the traversal is over, build the second return value
ElimReturn ==
  /\ pc = "elim"
  /\ stack = <<>>
  /\ allRemainingFactors' =
       AllRemaining(remainingFactors_, TraversalRemaining(roots_, childFactors))
  /\ pc' = "eliminated"
  /\ UNCHANGED <<stack, result, childFactors>>
  /\ UNCHANGED <<graph, structure, order, j, pending, nodes, parents, prevCol,
                 factorUsed, roots_, remainingFactors_, error>>
  /\ UNCHANGED <<eqVars, vbmVars, vvVars>>

-----------------------------------------------------------------------------
(* Idle values of the other components *)
EqIdle ==
  /\ this_ = <<>> /\ expected = <<>> /\ tol = 0
  /\ stack1 = <<>> /\ stack2 = <<>> /\ eqpc = "idle" /\ eqret = FALSE
  /\ edit = "none"
VbmIdle == rhs = <<>> /\ vbm = <<>> /\ vbmpc = "idle"
VvIdle ==
  /\ values_ = <<>> /\ c = <<>> /\ vvret = <<>> /\ vverr = ""
  /\ vvop = [op |-> "idle", j |-> 0, v |-> <<>>]
  /\ vvold = <<>>

-----------------------------------------------------------------------------
(* Construction followed by eliminate() *)
Init == InitET /\ EqIdle /\ VbmIdle /\ VvIdle

Next ==
  \/ SweepColumn
  \/ SweepThrow
  \/ VisitFactor
  \/ Finish
  \/ AssertAbort
  \/ ElimStart
  \/ ElimExpand
  \/ ElimVisit
  \/ ElimReturn

Spec == Init /\ [][Next]_vars

-----------------------------------------------------------------------------
(* Properties of construction and elimination *)

Positions   == 0..(Size(order) - 1)
Kids(p)     == At(nodes, p).children
Constructed == pc \in {"done", "elim", "eliminated"}
InvalidOrderingMsg ==
  "EliminationTree: given ordering contains variables that are not involved in the factor graph"

RECURSIVE Subtree(_)
Subtree(p) == {p} \cup UNION {Subtree(ch) : ch \in Range(Kids(p))}

TreeNodes == UNION {Subtree(r) : r \in Range(roots_)}

\* the places where factor i is held: slots of the factor lists of the nodes
\* of the tree, and slots of remainingFactors_
NodeSlots(i) ==
  {<<p, k>> \in TreeNodes \X (1..Size(graph)) :
     k <= Len(At(nodes, p).factors) /\ At(nodes, p).factors[k].id = i}
RemainingSlots(i) ==
  {k \in 1..Len(remainingFactors_) : remainingFactors_[k].id = i}

\* C1: after construction every factor index 0..m-1 is held exactly once in
\* the union of the factor lists of the tree's nodes and remainingFactors_
C1_FactorPartition ==
  Constructed =>
    \A i \in 0..(Size(graph) - 1) :
      Cardinality(NodeSlots(i)) + Cardinality(RemainingSlots(i)) = 1

C1_Witness ==
  /\ pc = "done"
  /\ Size(graph) = 2
  /\ Len(remainingFactors_) = 1
  /\ \E p \in Positions : Len(At(nodes, p).factors) = 1
  /\ Size(order) >= 2

\* the children-list slots in which node ch appears
ChildSlots(ch) ==
  {<<p, k>> \in Positions \X (1..Size(order)) :
     k <= Len(Kids(p)) /\ Kids(p)[k] = ch}

\* C2: at every step of the sweep and after it the links form a forest: a
\* node is in at most one children list (once), below a node that comes later
\* in the ordering; at the end roots_ lists exactly the parentless nodes in
\* ordering-index order and every node is in the subtree of exactly one root
C2_Forest ==
  (pc \in {"sweep", "row", "done", "elim", "eliminated"}) =>
    /\ \A ch \in Positions :
         /\ Cardinality(ChildSlots(ch)) <= 1
         /\ \A sl \in ChildSlots(ch) : ch < sl[1] /\ At(parents, ch) = sl[1]
         /\ (At(parents, ch) # none) => ChildSlots(ch) # {}
    /\ Constructed =>
         /\ roots_ = SortedSeq({p \in Positions : ChildSlots(p) = {}})
         /\ \A p \in Positions :
              Cardinality({k \in 1..Len(roots_) : p \in Subtree(roots_[k])}) = 1

C2_Witness ==
  /\ pc = "done"
  /\ parents = <<1, 2, none>>
  /\ roots_ = <<2>>
  /\ Kids(2) = <<1>>
  /\ Kids(1) = <<0>>
  /\ Size(graph) = 2
  /\ At(nodes, 0).factors = <<Factor(0), Factor(1)>>

\* the ordering positions whose variable factor i involves
Touching(i) ==
  {p \in Positions : structure[At(order, p)].present
                     /\ i \in structure[At(order, p)].factors}
Min(S) == CHOOSE x \in S : \A y \in S : x <= y
HeldBy(i) == {p \in Positions : Factor(i) \in Range(At(nodes, p).factors)}

\* C3: a factor that involves an ordered variable is held by the node of the
\* earliest ordered variable it involves and by no other node; a factor is in
\* remainingFactors_ exactly when it involves no ordered variable
C3_FirstVariablePlacement ==
  Constructed =>
    \A i \in 0..(Size(graph) - 1) :
      /\ Touching(i) # {} => HeldBy(i) = {Min(Touching(i))}
      /\ Touching(i) = {} => HeldBy(i) = {}
      /\ (Factor(i) \in Range(remainingFactors_)) <=> (Touching(i) = {})

C3_Witness ==
  /\ pc = "done"
  /\ Size(graph) = 2
  /\ Cardinality(Touching(0)) = 2
  /\ Min(Touching(0)) = 1
  /\ Touching(1) = {}
  /\ remainingFactors_ = <<Factor(1)>>

\* the node whose elimination produced a conditional
PosOf(cond)  == CHOOSE p \in Positions : At(order, p) = cond.keys[1]
Invoked      == [k \in 1..Len(result) |-> PosOf(result[k])]
RootIndex(p) == CHOOSE k \in 1..Len(roots_) : p \in Subtree(roots_[k])

\* C4: eliminate() produces one conditional per invocation of the procedure;
\* no node is eliminated twice, a node only after all its children, the
\* trees one after another in root-list order, and at the end every node
\* has exactly one conditional in the Bayes net
C4_PostOrder ==
  (pc \in {"elim", "eliminated"}) =>
    /\ \A a, b \in 1..Len(result) : a # b => Invoked[a] # Invoked[b]
    /\ \A a \in 1..Len(result) :
         /\ result[a].keys = <<At(nodes, Invoked[a]).key>>
         /\ \A ch \in Range(Kids(Invoked[a])) :
              \E b \in 1..(a - 1) : Invoked[b] = ch
    /\ \A a, b \in 1..Len(result) :
         a < b => RootIndex(Invoked[a]) <= RootIndex(Invoked[b])
    /\ (pc = "eliminated") =>
         /\ Len(result) = Size(order)
         /\ Range(Invoked) = Positions

C4_Witness ==
  /\ pc = "eliminated"
  /\ Len(roots_) = 2
  /\ Len(result) = 3
  /\ \E p \in Positions : Kids(p) # <<>>

RootSeparators ==
  [k \in 1..Len(roots_) |->
     [kind |-> "separator", id |-> At(nodes, roots_[k]).key]]

AbsentPositions == {p \in Positions : LookupThrows(At(order, p))}

\* C6: when some ordering entry has no entry in the variable index, whatever
\* its position, construction never completes: it stops at the first such
\* entry with the InvalidOrdering error and neither roots nor remaining
\* factors are produced
C6_InvalidOrdering ==
  /\ (AbsentPositions # {}) =>
       /\ pc \in {"sweep", "row", "failed"}
       /\ j <= Min(AbsentPositions)
       /\ (pc = "row") => j < Min(AbsentPositions)
       /\ (pc = "failed") => j = Min(AbsentPositions)
       /\ roots_ = <<>>
       /\ remainingFactors_ = <<>>
  /\ (pc = "failed") <=> (error = InvalidOrderingMsg)
  /\ (pc # "failed") => error = ""

C6_Witness ==
  /\ pc = "failed"
  /\ error = InvalidOrderingMsg
  /\ j = 2
  /\ Size(order) = 4
  /\ At(parents, 0) = 1
  /\ roots_ = <<>>

-----------------------------------------------------------------------------
(* EliminationTreeUnordered::equals, lines 214-279 *)

MaxTol == 1                      \* tolerances explored: 0..MaxTol

\* a factor reference: null, or a factor with contents val
NullFactor   == [null |-> TRUE, val |-> 0]
ValFactor(v) == [null |-> FALSE, val |-> v]

Abs(x) == IF x < 0 THEN -x ELSE x

\* line 251: the factor's own approximate equality
FactorEquals(f1, f2, t) == Abs(f1.val - f2.val) <= t

EqTreeSizes     == {0, 1, 2, 3}  \* node counts of the forests explored
NodeKeys        == {2, 4, 6}     \* keys of the nodes of a forest
SpareKeys       == {1, 3, 5, 7}  \* keys free for an added or re-keyed node
NodeFactorLists == {<<>>, <<ValFactor(1)>>, <<NullFactor, ValFactor(1)>>}

\* a forest as the constructor leaves it: node p has the children q with
\* par[q] = p, a child precedes its parent, the parentless nodes are the roots
MkForest(n, par, key, fl) ==
  [roots |-> SortedSeq({q \in 0..(n - 1) : par[q] = none}),
   nodes |-> [k \in 1..n |->
               [key |-> key[k - 1], factors |-> fl[k - 1],
                children |-> SortedSeq({q \in 0..(n - 1) : par[q] = k - 1})]]]

EqForests ==
  UNION {
    {MkForest(n, par, key, fl) :
       par \in {pp \in [0..(n - 1) -> {none} \cup (0..(n - 1))] :
                  \A q \in 0..(n - 1) : pp[q] = none \/ pp[q] > q},
       key \in {kk \in [0..(n - 1) -> NodeKeys] :
                  \A a, b \in 0..(n - 1) : a # b => kk[a] # kk[b]},
       fl  \in [0..(n - 1) -> NodeFactorLists]}
    : n \in EqTreeSizes}

\* the forest T with one more node of key k: under node w, or a new root when
\* w is none; with adopt the new node takes over the children of w (the
\* roots when w is none), without it the new node is a leaf
AddNode(T, w, k, adopt) ==
  LET p     == Len(T.nodes)
      taken == IF ~adopt THEN <<>>
               ELSE IF w = none THEN T.roots ELSE At(T.nodes, w).children
      kept  == IF adopt THEN <<>>
               ELSE IF w = none THEN T.roots ELSE At(T.nodes, w).children
      grown == Append(T.nodes, [NewNode(k) EXCEPT !.children = taken])
  IN  IF w = none
      THEN [roots |-> Append(kept, p), nodes |-> grown]
      ELSE [roots |-> T.roots,
            nodes |-> [grown EXCEPT ![w + 1].children = Append(kept, p)]]

ChangeKey(T, p, k) == [T EXCEPT !.nodes[p + 1].key = k]

ChangeFactor(T, p, sl, f) == [T EXCEPT !.nodes[p + 1].factors[sl] = f]

\* the position of the parent of node q in T, none for a root
ParentOf(T, q) ==
  LET ps == {p \in 0..(Len(T.nodes) - 1) : q \in Range(At(T.nodes, p).children)}
  IN  IF ps = {} THEN none ELSE CHOOSE p \in ps : TRUE

\* the forests with the nodes of T (same keys, same factors) and other
\* parent-child links
Reshaped(T) ==
  LET n == Len(T.nodes)
  IN  {MkForest(n, par, [q \in 0..(n - 1) |-> At(T.nodes, q).key],
                        [q \in 0..(n - 1) |-> At(T.nodes, q).factors]) :
         par \in {pp \in [0..(n - 1) -> {none} \cup (0..(n - 1))] :
                    /\ \A q \in 0..(n - 1) : pp[q] = none \/ pp[q] > q
                    /\ \E q \in 0..(n - 1) : pp[q] # ParentOf(T, q)}}

\* two factor references an exact comparison with tolerance t tells apart
FactorsDiffer(f, g, t) ==
  \/ f.null # g.null
  \/ ~f.null /\ ~g.null /\ Abs(f.val - g.val) > t

EditKinds ==
  {"same", "addNode", "removeNode", "changeKey", "changeFactor", "reshape"}

\* the forests that differ from T by one edit of the kind
Edited(T, kind, t) ==
  LET P == 0..(Len(T.nodes) - 1)
  IN  CASE kind = "same" -> {T}
        [] kind \in {"addNode", "removeNode"} ->
             {AddNode(T, w, k, adopt) :
                w \in {none} \cup P, k \in SpareKeys, adopt \in BOOLEAN}
        [] kind = "changeKey" ->
             {ChangeKey(T, p, k) : p \in P, k \in SpareKeys}
        [] kind = "changeFactor" ->
             UNION {UNION {
               {ChangeFactor(T, p, sl, f) :
                  f \in {g \in {NullFactor} \cup
                                {ValFactor(v) : v \in 1..(MaxTol + 2)} :
                           FactorsDiffer(At(T.nodes, p).factors[sl], g, t)}}
               : sl \in 1..Len(At(T.nodes, p).factors)} : p \in P}
        [] kind = "reshape" -> Reshaped(T)

InitEq ==
  /\ tol \in 0..MaxTol
  /\ edit \in EditKinds
  /\ \E T \in EqForests : \E U \in Edited(T, edit, tol) :
       IF edit = "removeNode"
       THEN this_ = U /\ expected = T
       ELSE this_ = T /\ expected = U
  /\ stack1 = <<>>
  /\ stack2 = <<>>
  /\ eqpc = "start"
  /\ eqret = FALSE

\* lines 221-224, 261-264: a FastMap from key to node filled by insert (the
\* first node of a key stays), then pushed in ascending key order: the node
\* of the largest key ends on top (the head of the stack)
RECURSIVE PushSorted(_, _, _)
PushSorted(stk, T, ps) ==
  IF ps = <<>> THEN stk
  ELSE LET ks   == {At(T.nodes, ps[x]).key : x \in 1..Len(ps)}
           lo   == CHOOSE k \in ks : \A k2 \in ks : k <= k2
           x0   == CHOOSE x \in 1..Len(ps) :
                     /\ At(T.nodes, ps[x]).key = lo
                     /\ \A y \in 1..(x - 1) : At(T.nodes, ps[y]).key # lo
           rest == SelectSeq(ps, LAMBDA q : At(T.nodes, q).key # lo)
       IN  PushSorted(<<ps[x0]>> \o stk, T, rest)

\* the comparison of two nodes without the factors
NodesDifferKeyOnly(node1, node2, t) == node1.key # node2.key

\* lines 242-257: key, number of factors, then the factors slot by slot
NodesDiffer(node1, node2, t) ==
  \/ node1.key # node2.key
  \/ Len(node1.factors) # Len(node2.factors)
  \/ \E sl \in 1..Len(node1.factors) :
       LET it1 == node1.factors[sl]
           it2 == node2.factors[sl]
       IN  IF ~it1.null /\ ~it2.null
           THEN ~FactorEquals(it1, it2, t)
           ELSE (~it1.null /\ it2.null) \/ (~it2.null /\ it1.null)

\* lines 216-231: seed the stacks with the roots
EqStart ==
  /\ eqpc = "start"
  /\ stack1' = PushSorted(<<>>, this_, this_.roots)
  /\ stack2' = PushSorted(<<>>, expected, expected.roots)
  /\ eqpc' = "loop"
  /\ UNCHANGED <<this_, expected, tol, eqret, edit>>
  /\ UNCHANGED <<etVars, elimVars, vbmVars, vvVars>>

\* lines 234-272: one iteration of the traversal loop
EqLoop ==
  /\ eqpc = "loop"
  /\ stack1 # <<>> /\ stack2 # <<>>
  /\ LET node1 == At(this_.nodes, Head(stack1))
         node2 == At(expected.nodes, Head(stack2))
     IN  IF NodesDiffer(node1, node2, tol)
         THEN /\ eqret' = FALSE
              /\ eqpc' = "returned"
              /\ stack1' = Tail(stack1)
              /\ stack2' = Tail(stack2)
         ELSE /\ stack1' = PushSorted(Tail(stack1), this_, node1.children)
              /\ stack2' = PushSorted(Tail(stack2), expected, node2.children)
              /\ UNCHANGED <<eqret, eqpc>>
  /\ UNCHANGED <<this_, expected, tol, edit>>
  /\ UNCHANGED <<etVars, elimVars, vbmVars, vvVars>>

\* lines 274-278: a stack ran empty
EqExit ==
  /\ eqpc = "loop"
  /\ stack1 = <<>> \/ stack2 = <<>>
  /\ eqret' = ~(stack1 # <<>> \/ stack2 # <<>>)
  /\ eqpc' = "returned"
  /\ UNCHANGED <<this_, expected, tol, stack1, stack2, edit>>
  /\ UNCHANGED <<etVars, elimVars, vbmVars, vvVars>>

EtIdle ==
  /\ graph = <<>> /\ structure = <<>> /\ order = <<>> /\ pc = "idle"
  /\ j = 0 /\ pending = <<>> /\ nodes = <<>> /\ parents = <<>>
  /\ prevCol = <<>> /\ factorUsed = <<>> /\ roots_ = <<>>
  /\ remainingFactors_ = <<>> /\ error = ""
  /\ ElimIdle

InitEquals == EtIdle /\ InitEq /\ VbmIdle /\ VvIdle
NextEquals == EqStart \/ EqLoop \/ EqExit
SpecEquals == InitEquals /\ [][NextEquals]_vars

\* C7: equals is reflexive for every tolerance, and returns false when the
\* other forest is this one with one node added or removed, one node key
\* changed, or one factor slot differing (not approximately equal, or null
\* on one side only)
C7_EqualsDetectsSingleEdits ==
  (eqpc = "returned") =>
    /\ (edit = "same") => eqret
    /\ (edit \in {"addNode", "removeNode", "changeKey", "changeFactor"})
         => ~eqret

C7_Witness ==
  /\ eqpc = "returned"
  /\ edit = "changeFactor"
  /\ ~eqret
  /\ tol = 1
  /\ Len(this_.nodes) = 3
  /\ Len(this_.roots) = 1
  /\ stack1 = <<>>
  /\ At(expected.nodes, 0).factors = <<NullFactor, ValFactor(3)>>

\* the parent-child links of a forest, by key: <<key, key of the parent>>,
\* with none for a root
Edges(T) ==
  {<<At(T.nodes, q).key,
     IF ParentOf(T, q) = none THEN none ELSE At(T.nodes, ParentOf(T, q)).key>> :
     q \in 0..(Len(T.nodes) - 1)}

\* C11: equals returns true only for forests of the same shape: when it
\* returns true for two forests with pairwise distinct keys, every key has
\* the same parent key (or is a root) in both
C11_EqualsImpliesSameShape ==
  (eqpc = "returned" /\ eqret) => Edges(this_) = Edges(expected)

-----------------------------------------------------------------------------
(* VerticalBlockMatrix::LikeActiveViewOf, part_000 lines 24-33 *)

MaxBlocks     == 3               \* blocks of the source matrix
MaxBlockWidth == 2               \* columns of one block
MaxRows       == 2               \* rows of the source matrix

\* column offsets of a matrix of n blocks: 0 first, strictly increasing
RECURSIVE OffsetSeqs(_)
OffsetSeqs(n) ==
  IF n = 0 THEN {<<0>>}
  ELSE {Append(o, o[Len(o)] + w) : o \in OffsetSeqs(n - 1), w \in 1..MaxBlockWidth}

\* a block matrix: offsets, the shape of matrix_, and the active view
Sources ==
  {[variableColOffsets_ |-> o, rows |-> R, cols |-> o[Len(o)],
    rowStart_ |-> rs, rowEnd_ |-> re, blockStart_ |-> bs] :
     o \in UNION {OffsetSeqs(n) : n \in 0..MaxBlocks},
     R \in 0..MaxRows, rs \in 0..MaxRows, re \in 0..MaxRows,
     bs \in 0..MaxBlocks}

ValidSource(M) ==
  /\ M.rowStart_ <= M.rowEnd_
  /\ M.rowEnd_ <= M.rows
  /\ M.blockStart_ < Size(M.variableColOffsets_)

\* VerticalBlockMatrix::nBlocks(): the blocks of the active view
nBlocks(M) == Size(M.variableColOffsets_) - 1 - M.blockStart_

\* VerticalBlockMatrix::rows(): the rows of the active view
rows(M) == M.rowEnd_ - M.rowStart_

\* VerticalBlockMatrix::assertInvariants(): offsets strictly increasing, the
\* matrix as wide as the last offset, the view inside the matrix
InvariantsHold(M) ==
  /\ \A a \in 1..(Len(M.variableColOffsets_) - 1) :
       M.variableColOffsets_[a] < M.variableColOffsets_[a + 1]
  /\ M.cols = M.variableColOffsets_[Len(M.variableColOffsets_)]
  /\ M.blockStart_ < Size(M.variableColOffsets_)
  /\ M.rowStart_ <= M.rowEnd_
  /\ M.rowEnd_ <= M.rows

\* lines 25-30: resize() value-initialises the nBlocks+1 offsets to 0, the
\* loop assigns the first nBlocks of them, the matrix gets back() columns
LikeActiveViewOfResult(M) ==
  LET offs == [a \in 1..(nBlocks(M) + 1) |->
                 IF a - 1 < nBlocks(M)
                 THEN At(M.variableColOffsets_, (a - 1) + M.blockStart_)
                 ELSE 0]
  IN  [variableColOffsets_ |-> offs,
       rows |-> rows(M), cols |-> offs[Len(offs)],
       rowStart_ |-> 0, rowEnd_ |-> rows(M), blockStart_ |-> 0]

InitVbm ==
  /\ rhs \in {M \in Sources : ValidSource(M)}
  /\ vbm = <<>>
  /\ vbmpc = "call"

\* lines 24-33: build the result, then check its invariants
LikeActiveViewOf ==
  /\ vbmpc = "call"
  /\ vbm' = LikeActiveViewOfResult(rhs)
  /\ vbmpc' = IF InvariantsHold(LikeActiveViewOfResult(rhs))
              THEN "returned" ELSE "aborted"
  /\ UNCHANGED rhs
  /\ UNCHANGED <<etVars, elimVars, eqVars, vvVars>>

InitBlock == EtIdle /\ EqIdle /\ InitVbm /\ VvIdle
NextBlock == LikeActiveViewOf
SpecBlock == InitBlock /\ [][NextBlock]_vars

ActiveOffsets(M) ==
  [a \in 1..(nBlocks(M) + 1) |->
     At(M.variableColOffsets_, (a - 1) + M.blockStart_)
       - At(M.variableColOffsets_, M.blockStart_)]

\* C8: for every valid source, LikeActiveViewOf returns a matrix with the
\* source's active block count whose offsets are the source's active offsets
\* shifted to start at 0, as many columns as the active blocks have, as many
\* rows as the active view, and which passes the invariant check
C8_LikeActiveViewOf ==
  (vbmpc # "call") =>
    /\ vbmpc = "returned"
    /\ Size(vbm.variableColOffsets_) = nBlocks(rhs) + 1
    /\ vbm.variableColOffsets_ = ActiveOffsets(rhs)
    /\ vbm.variableColOffsets_[1] = 0
    /\ vbm.cols = ActiveOffsets(rhs)[nBlocks(rhs) + 1]
    /\ vbm.rows = rows(rhs)
    /\ InvariantsHold(vbm)

-----------------------------------------------------------------------------
(* VectorValuesUnordered, lines 336-347, 368-372, 414-441, 458-495 *)

MaxSlots == 2                    \* slots of a VectorValues

Dims == {0, 1, 2}                \* lengths of the vectors explored
Vals == {0, 1}                   \* entries of the vectors explored

Vectors    == UNION {[1..d -> Vals] : d \in Dims}
Stores     == UNION {[1..n -> Vectors] : n \in 0..MaxSlots}
EmptyVector == <<>>              \* a default-constructed Vector

\* VectorValuesUnordered::exists(j): an index below the slot count
Exists(vals, jj) == jj < Size(vals)

\* std::vector::resize(n): keeps the first slots, appends empty vectors
ResizeSlots(vals, n) ==
  [k \in 1..n |-> IF k <= Len(vals) THEN vals[k] ELSE EmptyVector]

\* insert that assigns without the exists(j) test
InsertOverwrite(vals, jj, value) ==
  [values |-> SetAt(IF jj >= Size(vals) THEN ResizeSlots(vals, jj + 1) ELSE vals,
                    jj, value),
   err |-> ""]

\* lines 336-347
InsertOp(vals, jj, value) ==
  IF Exists(vals, jj)
  THEN [values |-> vals, err |-> "DuplicateKey"]
  ELSE [values |-> SetAt(IF jj >= Size(vals) THEN ResizeSlots(vals, jj + 1)
                         ELSE vals, jj, value),
        err |-> ""]

\* lines 368-372: n vectors Vector(varDim), whose entries are not initialised
ResizeResults(nVars, varDim) == [1..nVars -> [1..varDim -> Vals]]

\* lines 414-422
hasSameStructure(a, b) ==
  /\ Size(a) = Size(b)
  /\ \A jj \in 0..(Size(a) - 1) : Len(At(a, jj)) = Len(At(b, jj))

\* the slots compared before the loops of lines 434-439, 462-467, 476-481 and
\* 489-494 throw: all of them when no slot differs in length
FirstMismatch(a, b) ==
  LET bad == {jj \in 0..(Size(a) - 1) : Len(At(a, jj)) # Len(At(b, jj))}
  IN  IF bad = {} THEN Size(a) ELSE CHOOSE x \in bad : \A y \in bad : x <= y

VecAdd(u, v) == [x \in 1..Len(u) |-> u[x] + v[x]]
VecSub(u, v) == [x \in 1..Len(u) |-> u[x] - v[x]]

RECURSIVE VecDot(_, _)
VecDot(u, v) ==
  IF u = <<>> THEN 0 ELSE u[1] * v[1] + VecDot(Tail(u), Tail(v))

\* operator+ that stops at the slot count test
PlusNoSlotCheck(a, b) ==
  IF Size(a) # Size(b)
  THEN [err |-> "SizeMismatch", ret |-> <<>>]
  ELSE [err |-> "",
        ret |-> [k \in 1..Len(a) |->
                   [x \in 1..Len(a[k]) |->
                      a[k][x] + (IF x <= Len(b[k]) THEN b[k][x] ELSE 0)]]]

\* lines 458-469
Plus(a, b) ==
  IF Size(a) # Size(b) \/ FirstMismatch(a, b) < Size(a)
  THEN [err |-> "SizeMismatch", ret |-> <<>>]
  ELSE [err |-> "", ret |-> [k \in 1..Len(a) |-> VecAdd(a[k], b[k])]]

\* lines 472-483
Minus(a, b) ==
  IF Size(a) # Size(b) \/ FirstMismatch(a, b) < Size(a)
  THEN [err |-> "SizeMismatch", ret |-> <<>>]
  ELSE [err |-> "", ret |-> [k \in 1..Len(a) |-> VecSub(a[k], b[k])]]

RECURSIVE DotFrom(_, _, _)
\* lines 434-437: result += values_[j].dot(v.values_[j]) for j = from..
DotFrom(a, b, from) ==
  IF from >= Size(a) THEN 0
  ELSE VecDot(At(a, from), At(b, from)) + DotFrom(a, b, from + 1)

\* lines 430-441
Dot(a, b) ==
  IF Size(a) # Size(b) \/ FirstMismatch(a, b) < Size(a)
  THEN [err |-> "SizeMismatch", ret |-> 0]
  ELSE [err |-> "", ret |-> DotFrom(a, b, 0)]

\* lines 486-495: the slots before the first mismatch are already updated
\* when the exception is thrown
PlusAssign(a, b) ==
  IF Size(a) # Size(b)
  THEN [err |-> "SizeMismatch", values |-> a]
  ELSE LET stop == FirstMismatch(a, b)
       IN  [err |-> IF stop < Size(a) THEN "SizeMismatch" ELSE "",
            values |-> [k \in 1..Len(a) |->
                          IF k - 1 < stop THEN VecAdd(a[k], b[k]) ELSE a[k]]]

InStores(vals) == \A k \in 1..Len(vals) : vals[k] \in Vectors

InitVv ==
  /\ values_ = <<>>
  /\ c = <<>>
  /\ vvret = <<>>
  /\ vverr = ""
  /\ vvop = [op |-> "new", j |-> 0, v |-> <<>>]
  /\ vvold = <<>>

VvRest == UNCHANGED <<etVars, elimVars, eqVars, vbmVars>>

Insert ==
  /\ vvop.op = "new"
  /\ \E jj \in 0..(MaxSlots - 1), value \in Vectors :
       LET r == InsertOp(values_, jj, value)
       IN  /\ values_' = r.values
           /\ vverr' = r.err
           /\ vvop' = [op |-> "insert", j |-> jj, v |-> value]
  /\ vvold' = values_
  /\ vvret' = <<>>
  /\ UNCHANGED c
  /\ VvRest

Resize ==
  /\ vvop.op = "new"
  /\ \E nVars \in 0..MaxSlots, varDim \in Dims :
       /\ values_' \in ResizeResults(nVars, varDim)
       /\ vvop' = [op |-> "resize", j |-> nVars, v |-> <<>>]
  /\ vvold' = values_
  /\ vvret' = <<>>
  /\ vverr' = ""
  /\ UNCHANGED c
  /\ VvRest

OperatorPlus ==
  /\ vvop.op = "new"
  /\ \E other \in Stores :
       /\ c' = other
       /\ vvret' = Plus(values_, other).ret
       /\ vverr' = Plus(values_, other).err
  /\ vvop' = [op |-> "plus", j |-> 0, v |-> <<>>]
  /\ vvold' = values_
  /\ UNCHANGED values_
  /\ VvRest

OperatorMinus ==
  /\ vvop.op = "new"
  /\ \E other \in Stores :
       /\ c' = other
       /\ vvret' = Minus(values_, other).ret
       /\ vverr' = Minus(values_, other).err
  /\ vvop' = [op |-> "minus", j |-> 0, v |-> <<>>]
  /\ vvold' = values_
  /\ UNCHANGED values_
  /\ VvRest

OperatorDot ==
  /\ vvop.op = "new"
  /\ \E other \in Stores :
       /\ c' = other
       /\ vvret' = Dot(values_, other).ret
       /\ vverr' = Dot(values_, other).err
  /\ vvop' = [op |-> "dot", j |-> 0, v |-> <<>>]
  /\ vvold' = values_
  /\ UNCHANGED values_
  /\ VvRest

\* the guard keeps the entries of values_ within Vals
OperatorPlusAssign ==
  /\ vvop.op = "new"
  /\ \E other \in Stores :
       /\ InStores(PlusAssign(values_, other).values)
       /\ c' = other
       /\ values_' = PlusAssign(values_, other).values
       /\ vverr' = PlusAssign(values_, other).err
  /\ vvop' = [op |-> "plusAssign", j |-> 0, v |-> <<>>]
  /\ vvold' = values_
  /\ vvret' = <<>>
  /\ VvRest

\* the call is over: its argument, return value and exception are gone and
\* the object is ready for the next call
Return ==
  /\ vvop.op \notin {"new", "idle"}
  /\ vvop' = [op |-> "new", j |-> 0, v |-> <<>>]
  /\ c' = <<>>
  /\ vvret' = <<>>
  /\ vverr' = ""
  /\ vvold' = <<>>
  /\ UNCHANGED values_
  /\ VvRest

InitVectors == EtIdle /\ EqIdle /\ VbmIdle /\ InitVv
NextVectors ==
  \/ Insert
  \/ Resize
  \/ OperatorPlus
  \/ OperatorMinus
  \/ OperatorDot
  \/ OperatorPlusAssign
  \/ Return
SpecVectors == InitVectors /\ [][NextVectors]_vars

\* C9: after any sequence of inserts and resizes, insert(j, v) with j below
\* the slot count fails with DuplicateKey and changes nothing; otherwise it
\* succeeds, the slot count is j+1, slot j holds v, the slots created between
\* the old count and j are zero-length and the old slots are unchanged
C9_Insert ==
  (vvop.op = "insert") =>
    IF vvop.j < Len(vvold)
    THEN vverr = "DuplicateKey" /\ values_ = vvold
    ELSE /\ vverr = ""
         /\ Len(values_) = vvop.j + 1
         /\ values_[vvop.j + 1] = vvop.v
         /\ \A k \in (Len(vvold) + 1)..vvop.j : Len(values_[k]) = 0
         /\ \A k \in 1..Len(vvold) : values_[k] = vvold[k]

C9_Witness ==
  /\ vvop = [op |-> "insert", j |-> 1, v |-> <<1, 0>>]
  /\ vvold = <<>>
  /\ values_ = <<<<>>, <<1, 0>>>>
  /\ vverr = ""

SameShape(a, b) ==
  /\ Len(a) = Len(b)
  /\ \A k \in 1..Len(a) : Len(a[k]) = Len(b[k])

RECURSIVE SumOver(_, _, _)
\* sum of a[k][x] * b[k][x] over a set of pairs <<k, x>>
SumOver(a, b, S) ==
  IF S = {} THEN 0
  ELSE LET e == CHOOSE x \in S : TRUE
       IN  a[e[1]][e[2]] * b[e[1]][e[2]] + SumOver(a, b, S \ {e})

Entries(a) == UNION {{<<k, x>> : x \in 1..Len(a[k])} : k \in 1..Len(a)}

\* C10: a + b, a - b, a += b and a.dot(b) fail with SizeMismatch exactly
\* when the two stores differ in slot count or in the length of some slot;
\* otherwise the result is the entry-by-entry sum or difference (for dot the
\* sum of all entry products), and +, - and dot leave the left operand as it
\* was
C10_Arithmetic ==
  (vvop.op \in {"plus", "minus", "dot", "plusAssign"}) =>
    /\ (vverr = "SizeMismatch") <=> ~SameShape(vvold, c)
    /\ (vverr # "SizeMismatch") => vverr = ""
    /\ (SameShape(vvold, c) = hasSameStructure(vvold, c))
    /\ (vvop.op \in {"plus", "minus", "dot"}) => values_ = vvold
    /\ (vverr = "" /\ vvop.op = "plus") =>
         /\ SameShape(vvret, vvold)
         /\ \A e \in Entries(vvold) :
              vvret[e[1]][e[2]] = vvold[e[1]][e[2]] + c[e[1]][e[2]]
    /\ (vverr = "" /\ vvop.op = "minus") =>
         /\ SameShape(vvret, vvold)
         /\ \A e \in Entries(vvold) :
              vvret[e[1]][e[2]] = vvold[e[1]][e[2]] - c[e[1]][e[2]]
    /\ (vverr = "" /\ vvop.op = "plusAssign") =>
         /\ SameShape(values_, vvold)
         /\ \A e \in Entries(vvold) :
              values_[e[1]][e[2]] = vvold[e[1]][e[2]] + c[e[1]][e[2]]
    /\ (vverr = "" /\ vvop.op = "dot") =>
         vvret = SumOver(vvold, c, Entries(vvold))

C10_Witness ==
  /\ vvop.op = "plus"
  /\ vverr = ""
  /\ vvold = <<<<1, 0>>, <<1>>>>
  /\ c = <<<<1, 1>>, <<0>>>>
  /\ vvret = <<<<2, 1>>, <<1>>>>

\* C12: when a += b fails with SizeMismatch the left operand is unchanged,
\* both when the slot counts differ and when the first length mismatch is at
\* a slot after structurally matching slots
C12_PlusAssignFailureLeavesOperand ==
  (vvop.op = "plusAssign" /\ vverr = "SizeMismatch") => values_ = vvold

=============================================================================
